---- MODULE Spec2Model ----
(***************************************************************************)
(* Model of status_map_validator.StatusMap                                 *)
(* (src/status_map_validator/__init__.py).                                 *)
(*                                                                         *)
(* A StatusMap is built once from a transition specification and is then   *)
(* queried.  The state is the sequence of maps built so far (a map's       *)
(* position in the sequence stands for the identity of its graph object),  *)
(* the two process-wide lru_cache stores behind get_ancestors and          *)
(* get_descendants, and the outcome of the last call.                      *)
(*                                                                         *)
(* Not modelled: the insertion order of nodes (nodes are a set here), and  *)
(* the string texts of the exceptions other than which status they name.   *)
(***************************************************************************)
EXTENDS Integers, Sequences, FiniteSets, TLC

VARIABLES maps, ancestors_cache, descendants_cache, result

vars == <<maps, ancestors_cache, descendants_cache, result>>

-----------------------------------------------------------------------------
(* Bounds and input domains *)

\* Largest number of StatusMap instances alive in one process.
MaxMaps == 2

\* Longest `validation` list of an edge's attribute bag.
MaxHooks == 2

\* Capacity of each lru_cache.  The source sets maxsize=512; the model scales
\* it down so that eviction happens with the few keys the model has.
maxsize == 2

\* Status names a specification may use.
Statuses == {"a", "b", "c"}

\* Status names of the specifications that carry validation hooks.
HookStatuses == {"a", "b"}

\* Arguments of a query: the names above and one no specification uses.
QueryStatuses == Statuses \cup {"z"}

\* Validation hook identifiers.
Hooks == {"h1", "h2"}

EmptyMap == [x \in {} |-> x]

\* f with key k set to v (dict item assignment).
SetItem(f, k, v) == [x \in (DOMAIN f) \cup {k} |-> IF x = k THEN v ELSE f[x]]

\* Sequences over S of length at most n.
SeqsUpTo(S, n) == UNION {[1..k -> S] : k \in 0..n}

\* An attribute bag: whether it has the key `validation`, and that list.
NoAttributes == [has_validation |-> FALSE, validation |-> <<>>]

AttributeBags ==
    {NoAttributes} \cup
    {[has_validation |-> TRUE, validation |-> l] : l \in SeqsUpTo(Hooks, MaxHooks)}

\* The value of one specification key: a dict (target -> attribute bag) or a
\* plain collection of targets (items then maps each target to NoAttributes).
EdgeSpecs(S, B) ==
    {[isdict |-> FALSE, items |-> [t \in T |-> NoAttributes]] : T \in SUBSET S}
    \cup
    UNION {{[isdict |-> TRUE, items |-> i] : i \in [T -> B]} : T \in SUBSET S}

\* Every specification with keys and targets in S and attribute bags in B.
Specifications(S, B) == UNION {[K -> EdgeSpecs(S, B)] : K \in SUBSET S}

\* Specifications of every graph shape, entries plain or dict, no hooks.
GraphSpecs == Specifications(Statuses, {NoAttributes})

\* Every graph shape again, with the entries all plain, all dicts, or mixed
\* (the entry of "a" a dict and the others plain).
ClassifySpecs ==
    {T \in GraphSpecs :
        \/ \A k \in DOMAIN T : ~T[k].isdict
        \/ \A k \in DOMAIN T : T[k].isdict
        \/ \A k \in DOMAIN T : T[k].isdict <=> k = "a"}

\* Specifications over two statuses with every attribute bag.
HookSpecs == Specifications(HookStatuses, AttributeBags)

Plain(T) == [isdict |-> FALSE, items |-> [t \in T |-> NoAttributes]]

\* Specifications that use the same status names with different edges:
\* the chain a -> b -> c, the cycle a -> b -> c -> a, and no edge at all.
CacheSpecs ==
    { [s \in Statuses |-> Plain(IF s = "a" THEN {"b"} ELSE IF s = "b" THEN {"c"} ELSE {})],
      [s \in Statuses |-> Plain(IF s = "a" THEN {"b"} ELSE IF s = "b" THEN {"c"} ELSE {"a"})],
      [s \in Statuses |-> Plain({})] }

\* The same shapes with every entry a dict and one attribute bag on every edge.
FrameSpecs ==
    CacheSpecs \cup
    {[s \in Statuses |-> [isdict |-> TRUE, items |-> [t \in DOMAIN c[s].items |-> b]]] :
        c \in CacheSpecs, b \in AttributeBags}

-----------------------------------------------------------------------------
(* networkx.DiGraph, as far as StatusMap uses it *)

\* DiGraph(): no nodes.  succ[u][v] is the data of the edge u -> v.
DiGraph == [nodes |-> {}, succ |-> EmptyMap]

add_node(G, n) ==
    IF n \in G.nodes THEN G
    ELSE [nodes |-> G.nodes \cup {n}, succ |-> SetItem(G.succ, n, EmptyMap)]

RECURSIVE add_nodes_from(_, _)
add_nodes_from(G, ns) ==
    IF ns = {} THEN G
    ELSE LET n == CHOOSE x \in ns : TRUE
         IN add_nodes_from(add_node(G, n), ns \ {n})

\* add_edge: both ends become nodes, then the edge data is stored.
add_edge(G, u, v, data) ==
    LET G2 == add_node(add_node(G, u), v)
    IN [G2 EXCEPT !.succ = SetItem(G2.succ, u, SetItem(G2.succ[u], v, data))]

\* add_edges_from for the edges of one source: items maps target -> data.
RECURSIVE add_edges_from(_, _, _)
add_edges_from(G, u, items) ==
    IF DOMAIN items = {} THEN G
    ELSE LET v == CHOOSE x \in DOMAIN items : TRUE
             rest == [x \in (DOMAIN items) \ {v} |-> items[x]]
         IN add_edges_from(add_edge(G, u, v, items[v]), u, rest)

has_node(G, n) == n \in G.nodes

has_successor(G, u, v) == u \in G.nodes /\ v \in DOMAIN G.succ[u]

successors(G, u) == DOMAIN G.succ[u]

predecessors(G, u) == {p \in G.nodes : u \in DOMAIN G.succ[p]}

\* Breadth-first search from the frontier; visited nodes are not revisited.
RECURSIVE bfs_forward(_, _, _)
bfs_forward(G, frontier, visited) ==
    IF frontier = {} THEN visited
    ELSE LET next == (UNION {successors(G, n) : n \in frontier}) \ visited
         IN bfs_forward(G, next, visited \cup next)

RECURSIVE bfs_reverse(_, _, _)
bfs_reverse(G, frontier, visited) ==
    IF frontier = {} THEN visited
    ELSE LET next == (UNION {predecessors(G, n) : n \in frontier}) \ visited
         IN bfs_reverse(G, next, visited \cup next)

\* One-step reachability only: what a non-transitive lookup would compute.
descendants_direct_only(G, source) == successors(G, source) \ {source}

\* networkx.descendants: every node reachable from source, source excluded.
descendants(G, source) == bfs_forward(G, {source}, {source}) \ {source}

\* One step backward only.
ancestors_direct_only(G, source) == predecessors(G, source) \ {source}

\* networkx.ancestors: every node that reaches source, source excluded.
ancestors(G, source) == bfs_reverse(G, {source}, {source}) \ {source}

-----------------------------------------------------------------------------
(* StatusMap construction *)

\* The instance before _add_validation ever ran: no _validations attribute.
NoValidations == [has |-> FALSE, d |-> EmptyMap]

\* _add_validation: create the attribute and the from_state entry on demand,
\* then store the method under [from_state][to_state].
_add_validation(v, from_state, to_state, validation_method) ==
    LET d1 == IF v.has THEN v.d ELSE EmptyMap
        d2 == IF from_state \in DOMAIN d1 THEN d1 ELSE SetItem(d1, from_state, EmptyMap)
    IN [has |-> TRUE,
        d |-> SetItem(d2, from_state, SetItem(d2[from_state], to_state, validation_method))]

\* The inner loop of _add_transition_validations over one edge's methods.
RECURSIVE add_validation_methods(_, _, _, _)
add_validation_methods(v, from_state, to_state, validation_methods) ==
    IF validation_methods = <<>> THEN v
    ELSE add_validation_methods(
             _add_validation(v, from_state, to_state, Head(validation_methods)),
             from_state, to_state, Tail(validation_methods))

\* attributes.get("validation", [])
validation_of(attributes) ==
    IF attributes.has_validation THEN attributes.validation ELSE <<>>

\* _add_transition_validations: every edge of one dict entry.
RECURSIVE _add_transition_validations(_, _, _)
_add_transition_validations(v, from_state, transitions) ==
    IF DOMAIN transitions = {} THEN v
    ELSE LET to_state == CHOOSE x \in DOMAIN transitions : TRUE
             rest == [x \in (DOMAIN transitions) \ {to_state} |-> transitions[x]]
         IN _add_transition_validations(
                add_validation_methods(v, from_state, to_state,
                                       validation_of(transitions[to_state])),
                from_state, rest)

\* A constructor body that adds no edges for dict entries.
init_node_plain_edges_only(self, transitions, node) ==
    LET edges == transitions[node]
    IN IF edges.isdict
       THEN [self EXCEPT !.validations =
                 _add_transition_validations(self.validations, node, edges.items)]
       ELSE [self EXCEPT !.graph = add_edges_from(self.graph, node, edges.items)]

\* One pass of the constructor's loop: the edges of one key, and for a dict
\* entry its validation methods.
init_node(self, transitions, node) ==
    LET edges == transitions[node]
        validations == IF edges.isdict
                       THEN _add_transition_validations(self.validations, node, edges.items)
                       ELSE self.validations
    IN [self EXCEPT !.graph = add_edges_from(self.graph, node, edges.items),
                    !.validations = validations]

RECURSIVE init_nodes(_, _, _)
init_nodes(self, transitions, nodes) ==
    IF nodes = {} THEN self
    ELSE LET node == CHOOSE x \in nodes : TRUE
         IN init_nodes(init_node(self, transitions, node), transitions, nodes \ {node})

\* StatusMap.__init__.  The field transitions records the argument; the
\* Python object does not keep it.
StatusMap_init(transitions) ==
    init_nodes([transitions |-> transitions,
                graph |-> add_nodes_from(DiGraph, DOMAIN transitions),
                validations |-> NoValidations],
               transitions, DOMAIN transitions)

-----------------------------------------------------------------------------
(* functools.lru_cache *)

\* A cache key is (graph, status); a graph hashes and compares by identity.
KeyMatch_status_only(e, graph, status) == e.status = status

KeyMatch(e, graph, status) == e.graph = graph /\ e.status = status

lru_hit(cache, graph, status) ==
    \E k \in 1..Len(cache) : KeyMatch(cache[k], graph, status)

lru_index(cache, graph, status) ==
    CHOOSE k \in 1..Len(cache) : KeyMatch(cache[k], graph, status)

\* What the cached function returns: the stored value on a hit, the computed
\* one on a miss.
lru_value(cache, graph, status, computed) ==
    IF lru_hit(cache, graph, status)
    THEN cache[lru_index(cache, graph, status)].value
    ELSE computed

\* The cache after the call, most recently used first: a hit moves its entry
\* to the front, a miss inserts and evicts the least recently used entry.
lru_after(cache, graph, status, computed) ==
    IF lru_hit(cache, graph, status)
    THEN LET k == lru_index(cache, graph, status)
         IN <<cache[k]>> \o SubSeq(cache, 1, k - 1) \o SubSeq(cache, k + 1, Len(cache))
    ELSE LET grown == <<[graph |-> graph, status |-> status, value |-> computed]>> \o cache
         IN IF Len(grown) > maxsize THEN SubSeq(grown, 1, maxsize) ELSE grown

\* Whether the call drops an entry: a miss on a full cache.
lru_evicts(cache, graph, status) ==
    ~lru_hit(cache, graph, status) /\ Len(cache) >= maxsize

-----------------------------------------------------------------------------
(* Outcomes *)

NoResult ==
    [op |-> "none", map |-> 0, from |-> "", to |-> "", raised |-> "", names |-> "",
     islist |-> FALSE, list |-> <<>>, item |-> "", flag |-> FALSE, count |-> 0,
     set |-> {}]

Call(op, m, from, to) == [NoResult EXCEPT !.op = op, !.map = m, !.from = from, !.to = to]

Raise(r, error, names) == [r EXCEPT !.raised = error, !.names = names]

-----------------------------------------------------------------------------
(* validate_transition *)

\* The checks in the other order: to_status is looked up first.
validate_transition_outcome_to_first(r, G, from_status, to_status, anc, desc) ==
    IF ~has_node(G, to_status) THEN Raise(r, "StatusNotFoundError", "to_status")
    ELSE IF ~has_node(G, from_status) THEN Raise(r, "StatusNotFoundError", "from_status")
    ELSE IF from_status = to_status \/ has_successor(G, from_status, to_status) THEN r
    ELSE IF to_status \in anc /\ to_status \in desc THEN Raise(r, "AmbiguousTransitionError", "")
    ELSE IF to_status \in desc THEN Raise(r, "FutureTransitionError", "")
    ELSE IF to_status \in anc THEN Raise(r, "PastTransitionError", "")
    ELSE Raise(r, "TransitionNotFoundError", "")

\* Without the from_status == to_status shortcut.
validate_transition_outcome_no_self(r, G, from_status, to_status, anc, desc) ==
    IF ~has_node(G, from_status) THEN Raise(r, "StatusNotFoundError", "from_status")
    ELSE IF ~has_node(G, to_status) THEN Raise(r, "StatusNotFoundError", "to_status")
    ELSE IF has_successor(G, from_status, to_status) THEN r
    ELSE IF to_status \in anc /\ to_status \in desc THEN Raise(r, "AmbiguousTransitionError", "")
    ELSE IF to_status \in desc THEN Raise(r, "FutureTransitionError", "")
    ELSE IF to_status \in anc THEN Raise(r, "PastTransitionError", "")
    ELSE Raise(r, "TransitionNotFoundError", "")

\* With the ancestor and the descendant tests exchanged.
validate_transition_outcome_swapped(r, G, from_status, to_status, anc, desc) ==
    IF ~has_node(G, from_status) THEN Raise(r, "StatusNotFoundError", "from_status")
    ELSE IF ~has_node(G, to_status) THEN Raise(r, "StatusNotFoundError", "to_status")
    ELSE IF from_status = to_status \/ has_successor(G, from_status, to_status) THEN r
    ELSE IF to_status \in anc /\ to_status \in desc THEN Raise(r, "AmbiguousTransitionError", "")
    ELSE IF to_status \in anc THEN Raise(r, "FutureTransitionError", "")
    ELSE IF to_status \in desc THEN Raise(r, "PastTransitionError", "")
    ELSE Raise(r, "TransitionNotFoundError", "")

\* With the ambiguity test placed after the future test.
validate_transition_outcome_future_first(r, G, from_status, to_status, anc, desc) ==
    IF ~has_node(G, from_status) THEN Raise(r, "StatusNotFoundError", "from_status")
    ELSE IF ~has_node(G, to_status) THEN Raise(r, "StatusNotFoundError", "to_status")
    ELSE IF from_status = to_status \/ has_successor(G, from_status, to_status) THEN r
    ELSE IF to_status \in desc THEN Raise(r, "FutureTransitionError", "")
    ELSE IF to_status \in anc /\ to_status \in desc THEN Raise(r, "AmbiguousTransitionError", "")
    ELSE IF to_status \in anc THEN Raise(r, "PastTransitionError", "")
    ELSE Raise(r, "TransitionNotFoundError", "")

\* The decision of validate_transition, given the two reachability sets of
\* from_status (read only when both statuses are nodes, distinct, and not
\* joined by a direct edge).  r is returned unchanged on success.
validate_transition_outcome(r, G, from_status, to_status, anc, desc) ==
    IF ~has_node(G, from_status) THEN Raise(r, "StatusNotFoundError", "from_status")
    ELSE IF ~has_node(G, to_status) THEN Raise(r, "StatusNotFoundError", "to_status")
    ELSE IF from_status = to_status \/ has_successor(G, from_status, to_status) THEN r
    ELSE IF to_status \in anc /\ to_status \in desc THEN Raise(r, "AmbiguousTransitionError", "")
    ELSE IF to_status \in desc THEN Raise(r, "FutureTransitionError", "")
    ELSE IF to_status \in anc THEN Raise(r, "PastTransitionError", "")
    ELSE Raise(r, "TransitionNotFoundError", "")

\* Whether validate_transition returns or raises before it reaches the caches.
returns_early(G, from_status, to_status) ==
    \/ ~has_node(G, from_status)
    \/ ~has_node(G, to_status)
    \/ from_status = to_status
    \/ has_successor(G, from_status, to_status)

\* StatusMap.validate_transition on map m.  The flag of the result records
\* whether the call evicted a cache entry (the caller cannot see it).
validate_transition(m, from_status, to_status) ==
    LET G == maps[m].graph
        anc == lru_value(ancestors_cache, m, from_status, ancestors(G, from_status))
        desc == lru_value(descendants_cache, m, from_status, descendants(G, from_status))
        evicts == /\ ~returns_early(G, from_status, to_status)
                  /\ lru_evicts(ancestors_cache, m, from_status)
    IN /\ result' = validate_transition_outcome(
                        [Call("validate_transition", m, from_status, to_status)
                            EXCEPT !.flag = evicts],
                        G, from_status, to_status, anc, desc)
       /\ IF returns_early(G, from_status, to_status)
          THEN UNCHANGED <<ancestors_cache, descendants_cache>>
          ELSE /\ ancestors_cache' =
                      lru_after(ancestors_cache, m, from_status, ancestors(G, from_status))
               /\ descendants_cache' =
                      lru_after(descendants_cache, m, from_status, descendants(G, from_status))
       /\ UNCHANGED maps

-----------------------------------------------------------------------------
(* The other public operations *)

\* A lookup written with setdefault: it would create the from_state entry.
get_validations_setdefault(m, from_state, to_state) ==
    LET v == maps[m].validations
        r == Call("get_validations", m, from_state, to_state)
    IN IF ~v.has
       THEN /\ result' = Raise(r, "AttributeError", "_validations")
            /\ UNCHANGED <<maps, ancestors_cache, descendants_cache>>
       ELSE /\ result' =
                   IF from_state \in DOMAIN v.d /\ to_state \in DOMAIN v.d[from_state]
                   THEN [r EXCEPT !.item = v.d[from_state][to_state]]
                   ELSE [r EXCEPT !.islist = TRUE, !.list = <<>>]
            /\ maps' = [maps EXCEPT ![m].validations.d =
                           IF from_state \in DOMAIN v.d THEN v.d
                           ELSE SetItem(v.d, from_state, EmptyMap)]
            /\ UNCHANGED <<ancestors_cache, descendants_cache>>

\* StatusMap.get_validations: self._validations.get(from_state, {}).get(to_state, []).
\* Reading self._validations raises AttributeError when _add_validation never ran.
\* A stored value is the single method _add_validation left there (item); the
\* default is the empty list.
get_validations(m, from_state, to_state) ==
    LET v == maps[m].validations
        r == Call("get_validations", m, from_state, to_state)
    IN /\ result' =
              IF ~v.has THEN Raise(r, "AttributeError", "_validations")
              ELSE IF from_state \in DOMAIN v.d /\ to_state \in DOMAIN v.d[from_state]
              THEN [r EXCEPT !.item = v.d[from_state][to_state]]
              ELSE [r EXCEPT !.islist = TRUE, !.list = <<>>]
       /\ UNCHANGED <<maps, ancestors_cache, descendants_cache>>

\* StatusMap.__getitem__: the successors of node, KeyError when it is absent.
getitem(m, node) ==
    LET G == maps[m].graph
        r == Call("__getitem__", m, node, "")
    IN /\ result' = IF has_node(G, node)
                    THEN [r EXCEPT !.set = successors(G, node)]
                    ELSE Raise(r, "KeyError", "node")
       /\ UNCHANGED <<maps, ancestors_cache, descendants_cache>>

\* Mapping.__contains__: self[key] succeeds.
contains(m, node) ==
    /\ result' = [Call("__contains__", m, node, "") EXCEPT
                      !.flag = has_node(maps[m].graph, node)]
    /\ UNCHANGED <<maps, ancestors_cache, descendants_cache>>

\* StatusMap.__len__
len(m) ==
    /\ result' = [Call("__len__", m, "", "") EXCEPT
                      !.count = Cardinality(maps[m].graph.nodes)]
    /\ UNCHANGED <<maps, ancestors_cache, descendants_cache>>

\* StatusMap.__iter__
iter(m) ==
    /\ result' = [Call("__iter__", m, "", "") EXCEPT !.set = maps[m].graph.nodes]
    /\ UNCHANGED <<maps, ancestors_cache, descendants_cache>>

\* StatusMap.statuses
statuses(m) ==
    /\ result' = [Call("statuses", m, "", "") EXCEPT !.set = maps[m].graph.nodes]
    /\ UNCHANGED <<maps, ancestors_cache, descendants_cache>>

\* StatusMap(transitions): a new instance with a new graph object.
StatusMap(transitions) ==
    /\ maps' = Append(maps, StatusMap_init(transitions))
    /\ result' = Call("StatusMap", Len(maps) + 1, "", "")
    /\ UNCHANGED <<ancestors_cache, descendants_cache>>

-----------------------------------------------------------------------------
(* Specifications *)

Init ==
    /\ maps = <<>>
    /\ ancestors_cache = <<>>
    /\ descendants_cache = <<>>
    /\ result = NoResult

Validate ==
    \E m \in DOMAIN maps : \E f \in QueryStatuses : \E t \in QueryStatuses :
        validate_transition(m, f, t)

GetValidations ==
    \E m \in DOMAIN maps : \E f \in QueryStatuses : \E t \in QueryStatuses :
        get_validations(m, f, t)

GetItem == \E m \in DOMAIN maps : \E n \in QueryStatuses : getitem(m, n)

Contains == \E m \in DOMAIN maps : \E n \in QueryStatuses : contains(m, n)

Length == \E m \in DOMAIN maps : len(m)

Iterate == \E m \in DOMAIN maps : iter(m)

StatusesOf == \E m \in DOMAIN maps : statuses(m)

\* validate_transition between statuses that the specifications name.
ValidateNamed ==
    \E m \in DOMAIN maps : \E f \in Statuses : \E t \in Statuses :
        validate_transition(m, f, t)

\* One map of any graph shape, classified.
Build == maps = <<>> /\ \E t \in ClassifySpecs : StatusMap(t)

Next ==
    \/ Build
    \/ Validate

Spec == Init /\ [][Next]_vars

\* One map from any specification, inspected.
BuildAny == maps = <<>> /\ \E t \in GraphSpecs : StatusMap(t)

NextBuild ==
    \/ BuildAny
    \/ GetItem
    \/ Contains
    \/ Length
    \/ Iterate
    \/ StatusesOf

SpecBuild == Init /\ [][NextBuild]_vars

\* One map over two statuses, with validation hooks.
BuildHooks == maps = <<>> /\ \E t \in HookSpecs : StatusMap(t)

NextHooks ==
    \/ BuildHooks
    \/ GetValidations

SpecHooks == Init /\ [][NextHooks]_vars

\* Several maps that share status names and the two caches, each built from
\* a different specification.
BuildShared ==
    /\ Len(maps) < MaxMaps
    /\ \E t \in CacheSpecs :
           /\ \A m \in DOMAIN maps : maps[m].transitions # t
           /\ StatusMap(t)

NextCache ==
    \/ BuildShared
    \/ ValidateNamed

SpecCache == Init /\ [][NextCache]_vars

\* One map with hooks, under every public operation.
BuildFrame == maps = <<>> /\ \E t \in FrameSpecs : StatusMap(t)

NextFrame ==
    \/ BuildFrame
    \/ Validate
    \/ GetValidations
    \/ GetItem
    \/ Contains
    \/ Length
    \/ Iterate
    \/ StatusesOf

SpecFrame == Init /\ [][NextFrame]_vars

-----------------------------------------------------------------------------
(* What a specification declares, read off the constructor's argument *)

DeclaredEdge(T, u, v) == u \in DOMAIN T /\ v \in DOMAIN T[u].items

DeclaredNodes(T) == (DOMAIN T) \cup UNION {DOMAIN T[u].items : u \in DOMAIN T}

\* A forward path of one or more declared edges from x to y.
DeclaredPath(T, x, y) ==
    LET N == DeclaredNodes(T)
    IN \E k \in 1..Cardinality(N) : \E p \in [1..(k + 1) -> N] :
           /\ p[1] = x
           /\ p[k + 1] = y
           /\ \A i \in 1..k : DeclaredEdge(T, p[i], p[i + 1])

\* The validation list declared for the edge, empty when there is none.
DeclaredHooks(T, u, v) ==
    IF DeclaredEdge(T, u, v) THEN validation_of(T[u].items[v]) ELSE <<>>

IsValidate == result.op = "validate_transition"

ArgSpec == maps[result.map].transitions

BothNodes == result.from \in DeclaredNodes(ArgSpec) /\ result.to \in DeclaredNodes(ArgSpec)

\* Distinct nodes without a declared edge from the first to the second.
NoShortcut ==
    /\ BothNodes
    /\ result.from # result.to
    /\ ~DeclaredEdge(ArgSpec, result.from, result.to)

Forward == DeclaredPath(ArgSpec, result.from, result.to)

Backward == DeclaredPath(ArgSpec, result.to, result.from)

-----------------------------------------------------------------------------
(* Claims *)

\* C1: when from_status or to_status is not a node of the graph,
\* validate_transition raises StatusNotFoundError; it names from_status
\* whenever from_status is absent, and to_status only when from_status is
\* present and to_status is absent.
C1_StatusNotFound ==
    LET nodes == maps[result.map].graph.nodes
    IN (IsValidate /\ (result.from \notin nodes \/ result.to \notin nodes)) =>
           /\ result.raised = "StatusNotFoundError"
           /\ result.names = IF result.from \notin nodes THEN "from_status" ELSE "to_status"

\* Both statuses absent from a map that has nodes: from_status is named.
C1_Witness ==
    /\ IsValidate
    /\ maps[result.map].graph.nodes # {}
    /\ result.from \notin maps[result.map].graph.nodes
    /\ result.to \notin maps[result.map].graph.nodes
    /\ result.from # result.to
    /\ result.raised = "StatusNotFoundError"
    /\ result.names = "from_status"

\* C2: for two nodes of the map, validate_transition succeeds exactly when
\* they are equal or from_status -> to_status is a declared edge.
C2_SuccessIffSelfOrEdge ==
    (IsValidate /\ BothNodes) =>
        (result.raised = "" <=>
            (result.from = result.to \/ DeclaredEdge(ArgSpec, result.from, result.to)))

\* Success on a declared edge of a dict entry that lies on a cycle.
C2_Witness ==
    /\ IsValidate
    /\ result.raised = ""
    /\ result.from # result.to
    /\ DeclaredEdge(ArgSpec, result.from, result.to)
    /\ ArgSpec[result.from].isdict
    /\ Backward

\* C3: distinct nodes, no declared edge, to_status reachable from from_status
\* and not the other way round: FutureTransitionError.
C3_Future ==
    (IsValidate /\ NoShortcut /\ Forward /\ ~Backward) =>
        result.raised = "FutureTransitionError"

C3_Witness ==
    /\ IsValidate
    /\ NoShortcut
    /\ Forward
    /\ ~Backward
    /\ result.raised = "FutureTransitionError"

\* C4: distinct nodes, no declared edge, from_status reachable from to_status
\* and not the other way round: PastTransitionError.
C4_Past ==
    (IsValidate /\ NoShortcut /\ Backward /\ ~Forward) =>
        result.raised = "PastTransitionError"

\* The case of a single declared edge to_status -> from_status.
C4_Witness ==
    /\ IsValidate
    /\ NoShortcut
    /\ DeclaredEdge(ArgSpec, result.to, result.from)
    /\ ~Forward
    /\ result.raised = "PastTransitionError"

\* C5: AmbiguousTransitionError is raised exactly for distinct nodes without
\* a declared edge that reach each other; then a cycle passes through both.
C5_AmbiguousIffBothWays ==
    IsValidate =>
        /\ result.raised = "AmbiguousTransitionError" <=>
               (NoShortcut /\ Forward /\ Backward)
        /\ result.raised = "AmbiguousTransitionError" =>
               DeclaredPath(ArgSpec, result.from, result.from)

C5_Witness ==
    /\ IsValidate
    /\ result.raised = "AmbiguousTransitionError"
    /\ NoShortcut
    /\ Forward
    /\ Backward

\* C6: distinct nodes with no path either way: TransitionNotFoundError; and
\* TransitionNotFoundError is never raised for a pair joined by a path.
C6_NotFoundIffUnrelated ==
    IsValidate =>
        /\ (BothNodes /\ result.from # result.to /\ ~Forward /\ ~Backward) =>
               result.raised = "TransitionNotFoundError"
        /\ result.raised = "TransitionNotFoundError" => (~Forward /\ ~Backward)

C6_Witness ==
    /\ IsValidate
    /\ BothNodes
    /\ result.from # result.to
    /\ ~Forward
    /\ ~Backward
    /\ result.raised = "TransitionNotFoundError"

\* C7: get_validations returns the declared ordered list of hooks of the
\* edge, and the empty list, without raising, when there is none.
C7_ValidationsAsDeclared ==
    result.op = "get_validations" =>
        /\ result.raised = ""
        /\ result.islist
        /\ result.list = DeclaredHooks(ArgSpec, result.from, result.to)

\* C8: the outcome of validate_transition on a map is the one a fresh map
\* with empty caches gives: it depends on that map's graph and the two
\* arguments only, whatever the caches hold.
C8_OutcomeIgnoresCache ==
    IsValidate =>
        LET G == maps[result.map].graph
            fresh == validate_transition_outcome(
                         Call("validate_transition", result.map, result.from, result.to),
                         G, result.from, result.to,
                         ancestors(G, result.from), descendants(G, result.from))
        IN result.raised = fresh.raised /\ result.names = fresh.names

\* A call that evicted an entry while the cache holds, for another map, the
\* same status with a different ancestor set.
C8_Witness ==
    /\ IsValidate
    /\ result.flag
    /\ \E k \in 1..Len(ancestors_cache) :
           /\ ancestors_cache[k].graph # result.map
           /\ ancestors_cache[k].status = result.from
           /\ ancestors_cache[k].value # ancestors_cache[1].value
    /\ ancestors_cache[1].graph = result.map
    /\ ancestors_cache[1].status = result.from

\* C9: the nodes of a constructed map are the specification's keys and
\* declared targets, and its edges are the declared (source, target) pairs.
C9_GraphAsDeclared ==
    \A m \in DOMAIN maps :
        LET G == maps[m].graph
            T == maps[m].transitions
        IN /\ G.nodes = DeclaredNodes(T)
           /\ DOMAIN G.succ = G.nodes
           /\ \A u \in G.nodes : \A v \in Statuses :
                  v \in DOMAIN G.succ[u] <=> DeclaredEdge(T, u, v)

\* A map with a key that declares nothing, a target without an entry of its
\* own, a dict entry with an edge and a plain entry.
C9_Witness ==
    \E m \in DOMAIN maps :
        LET T == maps[m].transitions
        IN /\ \E u \in DOMAIN T : DOMAIN T[u].items = {}
           /\ \E v \in DeclaredNodes(T) : v \notin DOMAIN T
           /\ \E u \in DOMAIN T : T[u].isdict /\ DOMAIN T[u].items # {}
           /\ \E u \in DOMAIN T : ~T[u].isdict
           /\ maps[m].graph.nodes = Statuses

\* C10: no read operation changes a map's graph or validation index, and
\* only validate_transition changes the caches.
C10_ReadsChangeNothing ==
    [][/\ result'.op # "StatusMap" => maps' = maps
       /\ result'.op \notin {"StatusMap", "validate_transition"} =>
              /\ ancestors_cache' = ancestors_cache
              /\ descendants_cache' = descendants_cache]_vars

\* A lookup of hooks for a source without an entry in a non-empty index.
C10_Witness ==
    /\ result.op = "get_validations"
    /\ maps[result.map].validations.has
    /\ result.from \notin DOMAIN maps[result.map].validations.d
    /\ ancestors_cache # <<>>
    /\ result.islist

====
